---- MODULE Spec2Model ----
(***************************************************************************)
(* Model of the equity profit/loss calculator (src/app.py).                *)
(*                                                                         *)
(* The program is a Streamlit script: every change of a widget reruns the  *)
(* whole script, which rebuilds the rate table `const` from the sidebar,   *)
(* calls calc_equity_charges and calc_mtf_interest, and computes the tax   *)
(* and the take-home figure.  The state is the value of every widget and   *)
(* the values the last run of the script computed; there is one action per *)
(* widget, and each action is the edit followed by the complete rerun.     *)
(*                                                                         *)
(* Numbers.  The program computes with Python floats.  The model computes  *)
(* with exact rationals: a number is [w, n, d], standing for w + n/d with  *)
(* w an integer, 0 <= n < d and gcd(n, d) = 1, so that equal numbers are   *)
(* equal records.  The rounding of IEEE-754 doubles is not modelled.       *)
(***************************************************************************)
EXTENDS Integers, FiniteSets, Sequences, TLC

VARIABLES
    const,      \* the rate table built from the sidebar            (line 39)
    tab1,       \* widgets of tab 1: the trade                 (lines 125-134)
    tab2,       \* widgets of tab 2: margin, days, include     (lines 170-176)
    tab3,       \* widgets of tab 3: tax inputs                (lines 200-235)
    equity,     \* the breakdown calc_equity_charges returned      (line 136)
    tab2_out,   \* funded, mtf_interest, final_net_pnl         (lines 178-186)
    tab3_out    \* funded2 .. take_home                        (lines 237-260)

vars == <<const, tab1, tab2, tab3, equity, tab2_out, tab3_out>>

-----------------------------------------------------------------------------
(* Exact arithmetic                                                        *)

(* The operations are functions, so that an operand is evaluated once,     *)
(* when the function is applied; the operators below them apply them.      *)

Num == [w : Int, n : Nat, d : Nat]

gcd[a \in Nat, b \in Nat] == IF b = 0 THEN a ELSE gcd[b, a % b]

\* w + n/d for any integer n and d > 0, in normal form
mk[w \in Int, n \in Int, d \in Nat] ==
    LET r == n % d
        g == gcd[r, d]
    IN  [w |-> w + (n \div d), n |-> r \div g, d |-> d \div g]

add[a \in Num, b \in Num] ==
    LET g == gcd[a.d, b.d]
    IN  mk[a.w + b.w, a.n * (b.d \div g) + b.n * (a.d \div g), (a.d \div g) * b.d]

neg[a \in Num] ==
    IF a.n = 0 THEN [w |-> 0 - a.w, n |-> 0, d |-> 1]
    ELSE [w |-> (0 - a.w) - 1, n |-> a.d - a.n, d |-> a.d]

\* i * (n/d)
intfrac[i \in Int, n \in Nat, d \in Nat] ==
    LET g == gcd[IF i < 0 THEN 0 - i ELSE i, d]
    IN  mk[0, (i \div g) * n, d \div g]

\* (n1/d1) * (n2/d2)
fracfrac[n1 \in Nat, d1 \in Nat, n2 \in Nat, d2 \in Nat] ==
    LET g1 == gcd[n1, d2]
        g2 == gcd[n2, d1]
    IN  mk[0, (n1 \div g1) * (n2 \div g2), (d1 \div g2) * (d2 \div g1)]

mul[a \in Num, b \in Num] ==
    add[add[[w |-> a.w * b.w, n |-> 0, d |-> 1], intfrac[a.w, b.n, b.d]],
        add[intfrac[b.w, a.n, a.d], fracfrac[a.n, a.d, b.n, b.d]]]

le[a \in Num, b \in Num] == add[b, neg[a]].w >= 0

I(i) == [w |-> i, n |-> 0, d |-> 1]
Q(n, d) == mk[0, n, d]
Add(a, b) == add[a, b]
Sub(a, b) == add[a, neg[b]]
Mul(a, b) == mul[a, b]
\* a / k for an integer k > 0
Div(a, k) == mul[a, mk[0, 1, k]]
Le(a, b) == le[a, b]
Min(a, b) == IF le[a, b] THEN a ELSE b
Max(a, b) == IF le[b, a] THEN a ELSE b

\* Sum of a sequence of numbers, left to right
SumSeq(s) ==
    LET upto[k \in 0..Len(s)] == IF k = 0 THEN I(0) ELSE add[upto[k - 1], s[k]]
    IN  upto[Len(s)]

-----------------------------------------------------------------------------
(* The rate table                                                          *)

DEFAULTS ==
    [ BROKERAGE_RATE     |-> Q(1, 1000),
      BROKERAGE_CAP      |-> I(20),
      GST_RATE           |-> Q(18, 100),
      IPFT_FIXED         |-> I(2),
      DP_CHARGE          |-> Q(1593, 100),
      STT_INTRADAY_SELL  |-> Q(25, 100000),
      STT_DELIVERY_BUY   |-> Q(1, 1000),
      STT_DELIVERY_SELL  |-> Q(1, 1000),
      STAMP_INTRADAY_BUY |-> Q(3, 100000),
      STAMP_DELIVERY_BUY |-> Q(15, 100000),
      EXCH_NSE           |-> Q(297, 10000000),
      EXCH_BSE           |-> Q(375, 10000000),
      SEBI_CHARGE        |-> Q(1, 1000000),
      MTF_INTEREST_RATE  |-> Q(1495, 10000) ]

\* The values a user may type into each sidebar field: the default and one edit
SidebarValues ==
    [ BROKERAGE_RATE     |-> {Q(1, 1000), Q(2, 1000)},
      BROKERAGE_CAP      |-> {I(20), I(5)},
      GST_RATE           |-> {Q(18, 100), Q(12, 100)},
      IPFT_FIXED         |-> {I(2), I(3)},
      DP_CHARGE          |-> {Q(1593, 100), I(20)},
      STT_INTRADAY_SELL  |-> {Q(25, 100000), Q(1, 1000)},
      STT_DELIVERY_BUY   |-> {Q(1, 1000), Q(2, 1000)},
      STT_DELIVERY_SELL  |-> {Q(1, 1000), Q(5, 10000)},
      STAMP_INTRADAY_BUY |-> {Q(3, 100000), Q(5, 100000)},
      STAMP_DELIVERY_BUY |-> {Q(15, 100000), Q(2, 10000)},
      EXCH_NSE           |-> {Q(297, 10000000), Q(3, 100000)},
      EXCH_BSE           |-> {Q(375, 10000000), Q(4, 100000)},
      SEBI_CHARGE        |-> {Q(1, 1000000), Q(2, 1000000)},
      MTF_INTEREST_RATE  |-> {Q(1495, 10000), Q(10, 100)} ]

-----------------------------------------------------------------------------
(* Helper functions.  Each takes the rate table c it reads: in the program *)
(* that is the module-level dict const at the time of the call.            *)

\* brokerage without the cap
brokerage_uncapped(c, order_value) == Mul(order_value, c["BROKERAGE_RATE"])

brokerage(c, order_value) ==
    Min(Mul(order_value, c["BROKERAGE_RATE"]), c["BROKERAGE_CAP"])

exch_rate(c, exchange) ==
    IF exchange = "NSE" THEN c["EXCH_NSE"] ELSE c["EXCH_BSE"]

stamp_duty(c, segment, buy_value) ==
    IF segment = "Intraday"
    THEN Mul(buy_value, c["STAMP_INTRADAY_BUY"])
    ELSE Mul(buy_value, c["STAMP_DELIVERY_BUY"])

\* STT on both legs in either segment
stt_charge_both_legs(c, segment, buy_value, sell_value) ==
    IF segment = "Intraday"
    THEN Mul(Add(buy_value, sell_value), c["STT_INTRADAY_SELL"])
    ELSE Add(Mul(buy_value, c["STT_DELIVERY_BUY"]),
             Mul(sell_value, c["STT_DELIVERY_SELL"]))

stt_charge(c, segment, buy_value, sell_value) ==
    IF segment = "Intraday"
    THEN Mul(sell_value, c["STT_INTRADAY_SELL"])
    ELSE Add(Mul(buy_value, c["STT_DELIVERY_BUY"]),
             Mul(sell_value, c["STT_DELIVERY_SELL"]))

\* DP charge that looks at the flag only
dp_charge_any_segment(c, segment, dp_applicable) ==
    IF dp_applicable THEN c["DP_CHARGE"] ELSE I(0)

dp_charge(c, segment, dp_applicable) ==
    IF segment = "Delivery" /\ dp_applicable THEN c["DP_CHARGE"] ELSE I(0)

\* GST with IPFT in its base
gst_charge_with_ipft(c, brok, exch, sebi) ==
    Mul(Add(Add(Add(brok, exch), sebi), c["IPFT_FIXED"]), c["GST_RATE"])

gst_charge(c, brok, exch, sebi) ==
    Mul(Add(Add(brok, exch), sebi), c["GST_RATE"])

\* total that leaves the DP charge out
total_charges_without_dp(brok, exch, sebi, ipft, stamp, stt, dp, gst) ==
    Add(Add(Add(Add(Add(Add(brok, exch), sebi), ipft), stamp), stt), gst)

total_charges(brok, exch, sebi, ipft, stamp, stt, dp, gst) ==
    Add(Add(Add(Add(Add(Add(Add(brok, exch), sebi), ipft), stamp), stt), dp), gst)

calc_equity_charges(c, segment, exchange, buy_price, sell_price, qty, dp_applicable) ==
    LET buy_value  == Mul(buy_price, I(qty))
        sell_value == Mul(sell_price, I(qty))
        turnover   == Add(buy_value, sell_value)
        brok       == Add(brokerage(c, buy_value), brokerage(c, sell_value))
        exch       == Mul(turnover, exch_rate(c, exchange))
        sebi       == Mul(turnover, c["SEBI_CHARGE"])
        ipft       == c["IPFT_FIXED"]
        stamp      == stamp_duty(c, segment, buy_value)
        stt        == stt_charge(c, segment, buy_value, sell_value)
        dp         == dp_charge(c, segment, dp_applicable)
        gst        == gst_charge(c, brok, exch, sebi)
        total      == total_charges(brok, exch, sebi, ipft, stamp, stt, dp, gst)
        gross_pnl  == Sub(sell_value, buy_value)
        net_pnl    == Sub(gross_pnl, total)
    IN  [ buy_value             |-> buy_value,
          sell_value            |-> sell_value,
          turnover              |-> turnover,
          brokerage             |-> brok,
          exchange_txn          |-> exch,
          sebi                  |-> sebi,
          ipft                  |-> ipft,
          stamp                 |-> stamp,
          stt                   |-> stt,
          dp                    |-> dp,
          gst                   |-> gst,
          total_charges         |-> total,
          gross_pnl             |-> gross_pnl,
          net_pnl_after_charges |-> net_pnl ]

\* interest that counts the day of purchase as a day of its own
calc_mtf_interest_inclusive_days(c, buy_value, margin_percent, days) ==
    LET margin   == Div(I(margin_percent), 100)
        funded   == Mul(buy_value, Sub(I(1), margin))
        rate     == c["MTF_INTEREST_RATE"]
        interest == Mul(Mul(funded, rate), Div(I(days + 1), 365))
    IN  <<funded, interest>>

\* interest on the buy_value of the breakdown left by the run before, not on
\* the argument
calc_mtf_interest_stale_equity(c, buy_value, margin_percent, days) ==
    LET margin   == Div(I(margin_percent), 100)
        funded   == Mul(equity.buy_value, Sub(I(1), margin))
        rate     == c["MTF_INTEREST_RATE"]
        interest == Mul(Mul(funded, rate), Div(I(days), 365))
    IN  <<funded, interest>>

calc_mtf_interest(c, buy_value, margin_percent, days) ==
    LET margin   == Div(I(margin_percent), 100)
        funded   == Mul(buy_value, Sub(I(1), margin))
        rate     == c["MTF_INTEREST_RATE"]
        interest == Mul(Mul(funded, rate), Div(I(days), 365))
    IN  <<funded, interest>>

-----------------------------------------------------------------------------
(* Tab 2: MTF interest and final P&L                                       *)

\* final P&L that subtracts the interest whatever the option
final_net_pnl_always(net_pnl_after_charges, mtf_interest, include_mtf) ==
    Sub(net_pnl_after_charges, mtf_interest)

final_net_pnl(net_pnl_after_charges, mtf_interest, include_mtf) ==
    Sub(net_pnl_after_charges, IF include_mtf THEN mtf_interest ELSE I(0))

RunTab2(c, eq, t2) ==
    LET r == calc_mtf_interest(c, eq.buy_value, t2.margin_percent, t2.holding_days)
    IN  [ funded        |-> r[1],
          mtf_interest  |-> r[2],
          final_net_pnl |-> final_net_pnl(eq.net_pnl_after_charges, r[2], t2.include_mtf) ]

-----------------------------------------------------------------------------
(* Tab 3: tax and take home                                                *)

IncomeTypes ==
    << "Intraday (Business Income - slab)",
       "Delivery STCG (15%)",
       "Delivery LTCG (10% above 1L)" >>

taxable_amount(realised_profit) == Max(realised_profit, I(0))

base_tax(income_type, taxable, slab_rate, ltcg_exemption) ==
    IF income_type = "Intraday (Business Income - slab)"
    THEN Mul(taxable, Div(slab_rate, 100))
    ELSE IF income_type = "Delivery STCG (15%)"
    THEN Mul(taxable, Q(15, 100))
    ELSE Mul(Max(Sub(taxable, ltcg_exemption), I(0)), Q(10, 100))

tax(base, cess_rate, extra_tax) ==
    Add(Add(base, Mul(base, Div(cess_rate, 100))), extra_tax)

profit_after_equity_and_tax(realised_profit, total, tx) ==
    Sub(realised_profit, Add(total, tx))

\* interest applied whatever the option
mtf_interest_used_always(mtf_interest2, include_mtf_2) == mtf_interest2

mtf_interest_used(mtf_interest2, include_mtf_2) ==
    IF include_mtf_2 THEN mtf_interest2 ELSE I(0)

take_home(profit_after, mtf_used) == Sub(profit_after, mtf_used)

RunTab3(c, eq, t2, t3) ==
    LET r      == calc_mtf_interest(c, eq.buy_value, t2.margin_percent, t3.mtf_days_2)
        txbl   == taxable_amount(t3.realised_profit)
        base   == base_tax(t3.income_type, txbl, t3.slab_rate, t3.ltcg_exemption)
        tx     == tax(base, t3.cess_rate, t3.extra_tax)
        after  == profit_after_equity_and_tax(t3.realised_profit, eq.total_charges, tx)
        used   == mtf_interest_used(r[2], t3.include_mtf_2)
    IN  [ funded2                     |-> r[1],
          mtf_interest2               |-> r[2],
          taxable_amount              |-> txbl,
          base_tax                    |-> base,
          tax                         |-> tx,
          profit_after_equity_and_tax |-> after,
          mtf_interest_used           |-> used,
          take_home                   |-> take_home(after, used) ]

-----------------------------------------------------------------------------
(* Widgets: their initial values and the values a user may give them       *)

Tab1Defaults ==
    [ segment       |-> "Intraday",
      exchange      |-> "NSE",
      qty           |-> 100,
      buy_price     |-> I(100),
      sell_price    |-> I(101),
      dp_applicable |-> TRUE ]

Tab2Defaults ==
    [ margin_percent |-> 50,
      holding_days   |-> 7,
      include_mtf    |-> TRUE ]

\* realised_profit starts at the trade's gross_pnl (value=float(equity["gross_pnl"]))
Tab3Defaults(gross_pnl) ==
    [ income_type     |-> IncomeTypes[1],
      realised_profit |-> gross_pnl,
      slab_rate       |-> I(30),
      ltcg_exemption  |-> I(100000),
      cess_rate       |-> I(4),
      extra_tax       |-> I(0),
      include_mtf_2   |-> TRUE,
      mtf_days_2      |-> 7 ]

Tab1Values ==
    [ segment       |-> {"Intraday", "Delivery"},
      exchange      |-> {"NSE", "BSE"},
      qty           |-> {100, 300},
      buy_price     |-> {I(100), I(102)},
      sell_price    |-> {I(101), I(99)},
      dp_applicable |-> BOOLEAN ]

Tab2Values ==
    [ margin_percent |-> {50, 0, 100},
      holding_days   |-> {7, 14, 1},
      include_mtf    |-> BOOLEAN ]

Tab3Values ==
    [ income_type     |-> {IncomeTypes[i] : i \in 1..3},
      realised_profit |-> {I(-200), I(150000)},
      slab_rate       |-> {I(30), I(20)},
      ltcg_exemption  |-> {I(100000), I(-100)},
      cess_rate       |-> {I(4), I(0)},
      extra_tax       |-> {I(0), I(100)},
      include_mtf_2   |-> BOOLEAN,
      mtf_days_2      |-> {7, 14, 1, 2} ]

\* The model follows sessions in which at most MaxEdited widgets differ
\* from their initial values.
MaxEdited == 2

Differing(f, g) == Cardinality({k \in DOMAIN f : f[k] # g[k]})

Edited(c, t1, t2, t3, gross_pnl) ==
    Differing(c, DEFAULTS) + Differing(t1, Tab1Defaults)
        + Differing(t2, Tab2Defaults) + Differing(t3, Tab3Defaults(gross_pnl))

-----------------------------------------------------------------------------
(* The script                                                              *)

\* One run of the script with the widgets at c, t1, t2, t3
Rerun(c, t1, t2, t3) ==
    /\ const' = c
    /\ tab1' = t1
    /\ tab2' = t2
    /\ tab3' = t3
    /\ equity' = calc_equity_charges(c, t1.segment, t1.exchange, t1.buy_price,
                                     t1.sell_price, t1.qty, t1.dp_applicable)
    /\ tab2_out' = RunTab2(c, equity', t2)
    /\ tab3_out' = RunTab3(c, equity', t2, t3)

Init ==
    /\ const = DEFAULTS
    /\ tab1 = Tab1Defaults
    /\ tab2 = Tab2Defaults
    /\ equity = calc_equity_charges(const, tab1.segment, tab1.exchange, tab1.buy_price,
                                    tab1.sell_price, tab1.qty, tab1.dp_applicable)
    /\ tab3 = Tab3Defaults(equity.gross_pnl)
    /\ tab2_out = RunTab2(const, equity, tab2)
    /\ tab3_out = RunTab3(const, equity, tab2, tab3)

\* The widgets after an edit of tab 1.  The profit field of tab 3 is created
\* with the trade's gross_pnl as its value: when the gross_pnl changes, the
\* field either keeps what it held or is created anew with the new gross_pnl.
Tab3After(t1, keep) ==
    LET gross == Sub(Mul(t1.sell_price, I(t1.qty)), Mul(t1.buy_price, I(t1.qty)))
    IN  IF keep \/ gross = equity.gross_pnl
        THEN tab3
        ELSE [tab3 EXCEPT !.realised_profit = gross]

Within(c, t1, t2, t3) ==
    Edited(c, t1, t2, t3,
           Sub(Mul(t1.sell_price, I(t1.qty)), Mul(t1.buy_price, I(t1.qty)))) <= MaxEdited

\* The edit of widget f of tab 1, and the rerun
EditTab1(f) ==
    \E v \in Tab1Values[f], keep \in BOOLEAN :
        LET t1 == [tab1 EXCEPT ![f] = v]
            t3 == Tab3After(t1, keep)
        IN  /\ v # tab1[f]
            /\ Within(const, t1, tab2, t3)
            /\ Rerun(const, t1, tab2, t3)

EditTab2(f) ==
    \E v \in Tab2Values[f] :
        LET t2 == [tab2 EXCEPT ![f] = v]
        IN  /\ v # tab2[f]
            /\ Within(const, tab1, t2, tab3)
            /\ Rerun(const, tab1, t2, tab3)

EditTab3(f) ==
    \E v \in Tab3Values[f] :
        LET t3 == [tab3 EXCEPT ![f] = v]
        IN  /\ v # tab3[f]
            /\ Within(const, tab1, tab2, t3)
            /\ Rerun(const, tab1, tab2, t3)

\* Sidebar: one number_input per key of DEFAULTS
EditConst ==
    \E k \in DOMAIN DEFAULTS :
        \E v \in SidebarValues[k] :
            LET c == [const EXCEPT ![k] = v]
            IN  /\ v # const[k]
                /\ Within(c, tab1, tab2, tab3)
                /\ Rerun(c, tab1, tab2, tab3)

SetSegment        == EditTab1("segment")
SetExchange       == EditTab1("exchange")
SetQty            == EditTab1("qty")
SetBuyPrice       == EditTab1("buy_price")
SetSellPrice      == EditTab1("sell_price")
SetDpApplicable   == EditTab1("dp_applicable")
SetMarginPercent  == EditTab2("margin_percent")
SetHoldingDays    == EditTab2("holding_days")
SetIncludeMtf     == EditTab2("include_mtf")
SetIncomeType     == EditTab3("income_type")
SetRealisedProfit == EditTab3("realised_profit")
SetSlabRate       == EditTab3("slab_rate")
SetLtcgExemption  == EditTab3("ltcg_exemption")
SetCessRate       == EditTab3("cess_rate")
SetExtraTax       == EditTab3("extra_tax")
SetIncludeMtf2    == EditTab3("include_mtf_2")
SetMtfDays2       == EditTab3("mtf_days_2")

Next ==
    \/ EditConst
    \/ SetSegment
    \/ SetExchange
    \/ SetQty
    \/ SetBuyPrice
    \/ SetSellPrice
    \/ SetDpApplicable
    \/ SetMarginPercent
    \/ SetHoldingDays
    \/ SetIncludeMtf
    \/ SetIncomeType
    \/ SetRealisedProfit
    \/ SetSlabRate
    \/ SetLtcgExemption
    \/ SetCessRate
    \/ SetExtraTax
    \/ SetIncludeMtf2
    \/ SetMtfDays2

Spec == Init /\ [][Next]_vars

\* A session in which only the widgets of tab 3 are edited, any number of them
TaxEdit ==
    \E f \in DOMAIN Tab3Values :
        \E v \in Tab3Values[f] :
            /\ v # tab3[f]
            /\ Rerun(const, tab1, tab2, [tab3 EXCEPT ![f] = v])

SpecTax == Init /\ [][TaxEdit]_vars

-----------------------------------------------------------------------------
(* Properties                                                              *)

Zero == I(0)
LTCG == IncomeTypes[3]

\* The charge components that line 74 adds up, in its order
ChargeComponents(eq) ==
    <<eq.brokerage, eq.exchange_txn, eq.sebi, eq.ipft, eq.stamp, eq.stt, eq.dp, eq.gst>>

\* Keys on which two functions with the same domain differ
DiffKeys(f, g) == {k \in DOMAIN f : f[k] # g[k]}

(* C1 (as amended): total_charges is the exact sum of the EIGHT charge      *)
(* components brokerage, exchange_txn, sebi, ipft, stamp, stt, dp and gst   *)
(* of the same breakdown, none omitted, added or counted twice.             *)
C1_TotalIsSumOfEight ==
    /\ Len(ChargeComponents(equity)) = 8
    /\ equity.total_charges = SumSeq(ChargeComponents(equity))
    /\ equity.net_pnl_after_charges = Sub(equity.gross_pnl, equity.total_charges)

\* C1 as stated: the components that are summed are nine
C1_TotalIsSumOfNine ==
    /\ Len(ChargeComponents(equity)) = 9
    /\ equity.total_charges = SumSeq(ChargeComponents(equity))

\* C1 witness: a Delivery trade on which every one of the eight components is charged
C1_Witness ==
    /\ tab1.segment = "Delivery"
    /\ \A i \in 1..8 : ChargeComponents(equity)[i] # Zero
    /\ equity.total_charges # Zero

\* Leg values from the smallest the widgets allow (price 0.01, quantity 1), over
\* the value at which the default rate meets the default cap, to very large ones
LegValues == {Q(1, 100), I(5000), I(20000), I(20001), I(1000000), I(2000000000)}

(* C2: brokerage of a leg is min(leg_value * BROKERAGE_RATE, BROKERAGE_CAP) *)
(* and never exceeds the cap, however large the leg; the breakdown's        *)
(* brokerage is the sum of the two legs' brokerage and never exceeds twice  *)
(* the cap.                                                                 *)
C2_BrokeragePerLegCapped ==
    LET rate == const["BROKERAGE_RATE"]
        cap  == const["BROKERAGE_CAP"]
        Leg(x) == IF Le(Mul(x, rate), cap) THEN Mul(x, rate) ELSE cap
    IN  /\ \A x \in LegValues \cup {equity.buy_value, equity.sell_value, equity.turnover} :
              /\ brokerage(const, x) = Leg(x)
              /\ Le(brokerage(const, x), cap)
        /\ equity.brokerage = Add(Leg(equity.buy_value), Leg(equity.sell_value))
        /\ Le(equity.brokerage, Mul(I(2), cap))

\* C2 witness: both legs are capped, so the brokerage is twice the cap, which a
\* cap on the turnover as a whole would not give
C2_Witness ==
    /\ equity.brokerage = Mul(I(2), const["BROKERAGE_CAP"])
    /\ ~Le(Mul(equity.buy_value, const["BROKERAGE_RATE"]), const["BROKERAGE_CAP"])
    /\ brokerage(const, equity.turnover) # equity.brokerage

\* dp is DP_CHARGE exactly when the segment is Delivery and dp_applicable is set
C3_DpValue ==
    /\ (tab1.segment = "Delivery" /\ tab1.dp_applicable) => equity.dp = const["DP_CHARGE"]
    /\ ~(tab1.segment = "Delivery" /\ tab1.dp_applicable) => equity.dp = Zero
    /\ tab1.segment = "Intraday" => equity.dp = Zero

\* On an Intraday trade, toggling dp_applicable alone changes no charge
C3_IntradayToggle ==
    (/\ tab1.segment = "Intraday"
     /\ DiffKeys(tab1', tab1) = {"dp_applicable"}
     /\ const' = const)
        => /\ equity'.dp = equity.dp
           /\ equity'.dp = Zero
           /\ equity'.total_charges = equity.total_charges

(* C3: dp is DP_CHARGE exactly when the segment is Delivery and             *)
(* dp_applicable is set, and 0 otherwise; on an Intraday trade a change of  *)
(* dp_applicable alone changes neither dp nor total_charges.                *)
C3_DpOnlyForDelivery == []C3_DpValue /\ [][C3_IntradayToggle]_vars

\* C3 witness: an Intraday trade with the flag set (no charge) whose sidebar
\* DP_CHARGE is not 0
C3_Witness ==
    /\ tab1.segment = "Intraday"
    /\ tab1.dp_applicable
    /\ const["DP_CHARGE"] # Zero
    /\ equity.dp = Zero
    /\ tab1 # Tab1Defaults

\* gst is GST_RATE on brokerage + exchange_txn + sebi
C4_GstFormula ==
    equity.gst = Mul(Add(Add(equity.brokerage, equity.exchange_txn), equity.sebi),
                     const["GST_RATE"])

\* Rates of the charges that line 72 leaves out of the GST base
NotInGstBase ==
    { "IPFT_FIXED", "DP_CHARGE", "STT_INTRADAY_SELL", "STT_DELIVERY_BUY",
      "STT_DELIVERY_SELL", "STAMP_INTRADAY_BUY", "STAMP_DELIVERY_BUY" }

\* An edit of only those rates, the segment or dp_applicable leaves gst as it was
C4_GstFrame ==
    (/\ DiffKeys(const', const) \subseteq NotInGstBase
     /\ DiffKeys(tab1', tab1) \subseteq {"segment", "dp_applicable"})
        => equity'.gst = equity.gst

(* C4: gst = (brokerage + exchange_txn + sebi) * GST_RATE, and a change of  *)
(* only IPFT_FIXED, DP_CHARGE, an STT rate, a stamp-duty rate, the segment  *)
(* or dp_applicable leaves gst unchanged.                                   *)
C4_GstBase == []C4_GstFormula /\ [][C4_GstFrame]_vars

\* C4 witness: a Delivery trade with DP charged and IPFT edited, so that the
\* charges outside the GST base are there and differ from the initial ones
C4_Witness ==
    /\ tab1.segment = "Delivery"
    /\ equity.dp # Zero
    /\ const["IPFT_FIXED"] # DEFAULTS["IPFT_FIXED"]
    /\ equity.gst # Zero

(* C5: under the LTCG treatment, for every profit and every exemption, the  *)
(* base tax is 10% of max(profit - ltcg_exemption, 0); the LTCG tax is 0    *)
(* whenever profit <= ltcg_exemption (and no extra tax is entered).         *)
C5_LtcgTax ==
    tab3.income_type = LTCG =>
        /\ tab3_out.base_tax =
               Mul(Max(Sub(tab3.realised_profit, tab3.ltcg_exemption), Zero), Q(10, 100))
        /\ Le(tab3.realised_profit, tab3.ltcg_exemption) =>
               /\ tab3_out.base_tax = Zero
               /\ tab3.extra_tax = Zero => tab3_out.tax = Zero

\* C5 restricted to exemptions that are not negative (what the code does compute)
C5_LtcgTaxNonNegativeExemption ==
    Le(Zero, tab3.ltcg_exemption) => C5_LtcgTax

(* C6: take_home = realised profit - (total_charges + tax) - MTF interest,  *)
(* with the tax estimated on the realised profit (not on the profit net of  *)
(* charges), total_charges subtracted once, and the MTF term the computed   *)
(* interest when include_mtf_2 is set and 0 when it is not.                 *)
C6_TakeHomeFormula ==
    LET profit   == tab3.realised_profit
        onProfit == tax(base_tax(tab3.income_type, Max(profit, Zero),
                                 tab3.slab_rate, tab3.ltcg_exemption),
                        tab3.cess_rate, tab3.extra_tax)
        interest == calc_mtf_interest(const, equity.buy_value,
                                      tab2.margin_percent, tab3.mtf_days_2)[2]
        mtfTerm  == IF tab3.include_mtf_2 THEN interest ELSE Zero
    IN  /\ tab3_out.tax = onProfit
        /\ tab3_out.take_home =
               Sub(Sub(profit, Add(equity.total_charges, tab3_out.tax)), mtfTerm)

\* C6 witness: the option is off while the interest is not 0, and the tax on the
\* realised profit differs from what the tax on the net figure would be
C6_Witness ==
    /\ ~tab3.include_mtf_2
    /\ tab3_out.mtf_interest2 # Zero
    /\ tab3_out.tax # Zero
    /\ equity.total_charges # Zero
    /\ tab3_out.tax #
           tax(base_tax(tab3.income_type,
                        Max(Sub(tab3.realised_profit, equity.total_charges), Zero),
                        tab3.slab_rate, tab3.ltcg_exemption),
               tab3.cess_rate, tab3.extra_tax)

\* Holding days for which linearity is checked in every state
MaxDays == 4

(* C7: for fixed buy_value, margin_percent and MTF_INTEREST_RATE and every  *)
(* days >= 1, the interest for 2 * days is twice the interest for days and  *)
(* the funded amount is the same.                                           *)
C7_InterestLinearInDays ==
    /\ \A days \in 1..MaxDays :
          LET one == calc_mtf_interest(const, equity.buy_value, tab2.margin_percent, days)
              two == calc_mtf_interest(const, equity.buy_value, tab2.margin_percent, 2 * days)
          IN  /\ two[2] = Mul(I(2), one[2])
              /\ two[1] = one[1]
    /\ tab3.mtf_days_2 = 2 * tab2.holding_days =>
          /\ tab3_out.mtf_interest2 = Mul(I(2), tab2_out.mtf_interest)
          /\ tab3_out.funded2 = tab2_out.funded

\* C7 witness: tab 3 holds for twice the days of tab 2 and interest is charged
C7_Witness ==
    /\ tab3.mtf_days_2 = 2 * tab2.holding_days
    /\ tab2_out.mtf_interest # Zero
    /\ tab3_out.mtf_interest2 = Mul(I(2), tab2_out.mtf_interest)

\* The arguments of the two calls of calc_mtf_interest
MtfArgs(eq, t2, t3) ==
    <<eq.buy_value, t2.margin_percent, t2.holding_days, t3.mtf_days_2>>

MtfResults(o2, o3) ==
    <<o2.funded, o2.mtf_interest, o3.funded2, o3.mtf_interest2>>

\* Across one rerun: same rate table and same arguments, same results; and the
\* rate table changes only by an edit of one sidebar value
C8_SameInputsSameResults ==
    /\ (const' = const /\ tab1' = tab1) => equity' = equity
    /\ (const' = const /\ MtfArgs(equity', tab2', tab3') = MtfArgs(equity, tab2, tab3))
           => MtfResults(tab2_out', tab3_out') = MtfResults(tab2_out, tab3_out)
    /\ const' # const => Cardinality(DiffKeys(const', const)) = 1 /\ UNCHANGED <<tab1, tab2, tab3>>

C8_SameArgumentsSameResults ==
    /\ tab1' = tab1 => equity' = equity
    /\ MtfArgs(equity', tab2', tab3') = MtfArgs(equity, tab2, tab3)
           => MtfResults(tab2_out', tab3_out') = MtfResults(tab2_out, tab3_out)

C9_StampAndStt ==
    /\ tab1.segment = "Intraday" =>
          /\ equity.stamp = Mul(equity.buy_value, const["STAMP_INTRADAY_BUY"])
          /\ equity.stt = Mul(equity.sell_value, const["STT_INTRADAY_SELL"])
    /\ tab1.segment = "Delivery" =>
          /\ equity.stamp = Mul(equity.buy_value, const["STAMP_DELIVERY_BUY"])
          /\ equity.stt = Add(Mul(equity.buy_value, const["STT_DELIVERY_BUY"]),
                              Mul(equity.sell_value, const["STT_DELIVERY_SELL"]))

\* On an Intraday trade an edit of the buy price alone leaves stt as it was
C9_BuyPriceFrame ==
    (/\ const' = const
     /\ DiffKeys(tab1', tab1) = {"buy_price"})
        => (tab1.segment = "Intraday" => equity'.stt = equity.stt)

(* C9: Intraday: stamp = buy_value * STAMP_INTRADAY_BUY and                  *)
(* stt = sell_value * STT_INTRADAY_SELL (sell leg only, unchanged when only  *)
(* buy_price changes).  Delivery: stamp = buy_value * STAMP_DELIVERY_BUY and *)
(* stt = buy_value * STT_DELIVERY_BUY + sell_value * STT_DELIVERY_SELL.      *)
C9_SegmentCharges == []C9_StampAndStt /\ [][C9_BuyPriceFrame]_vars

\* C9 witness: a Delivery trade whose buy price was edited, STT on both legs
C9_Witness ==
    /\ tab1.segment = "Delivery"
    /\ tab1.buy_price # Tab1Defaults.buy_price
    /\ equity.stt # Mul(equity.sell_value, const["STT_DELIVERY_SELL"])
    /\ equity.stamp # Zero

====
